---------------------------- MODULE Spec2Model ----------------------------
(***************************************************************************)
(* The greeting service of "FastAPI Demo/main.py": POST /greet and         *)
(* GET /health.                                                            *)
(*                                                                         *)
(* Text whose characters the code inspects or concatenates (name,          *)
(* language, time_of_day, the greetings, the message) is a sequence of     *)
(* code points.  An ASCII code point is the one-character string, any      *)
(* other one is written "U+XXXX".  Labels the code only passes along       *)
(* (tone, tips, error details) are TLA+ strings.                           *)
(* An optional value is a sequence of length 0 (None) or 1.                *)
(***************************************************************************)
EXTENDS Integers, Sequences, FiniteSets, TLC

VARIABLES
    req,      \* per worker: the HTTP request it is serving
    pc,       \* per worker: where the request stands (a line of greet)
    payload,  \* per worker: the GreetRequest the framework built
    frame,    \* per worker: arguments and locals of its craft_message call
    calls,    \* per worker: craft_message calls made for the current request
    resp      \* per worker: the response it sent last

vars == <<req, pc, payload, frame, calls, resp>>

\* the threads of the server's pool that run the handlers
Workers == {"w1", "w2"}

----------------------------------------------------------------------------
(* Text *)

Chars(s) == [i \in 1..Len(s) |-> SubSeq(s, i, i)]

Rep(c, n) == [i \in 1..n |-> c]

None == <<>>

Some(v) == <<v>>

UpperLetters == Chars("ABCDEFGHIJKLMNOPQRSTUVWXYZ")

LowerLetters == Chars("abcdefghijklmnopqrstuvwxyz")

\* str.lower() on one code point of the input alphabet
LowerChar(c) ==
    IF \E i \in 1..26 : UpperLetters[i] = c
    THEN LowerLetters[CHOOSE i \in 1..26 : UpperLetters[i] = c]
    ELSE c

\* str.lower()
Lower(s) == [i \in 1..Len(s) |-> LowerChar(s[i])]

\* the digits of the input alphabet; str.isdigit also accepts the digits of
\* other scripts, which no input of the model holds
DigitChars == {"0", "1", "2", "3", "4", "5", "6", "7", "8", "9"}

\* faulty variant: true as soon as one character is a digit
isdigit_any(s) == \E i \in 1..Len(s) : s[i] \in DigitChars

\* str.isdigit(): non-empty and every character a digit
isdigit(s) == Len(s) > 0 /\ \A i \in 1..Len(s) : s[i] \in DigitChars

\* dict.get(key, default)
DictGet(d, k, default) == IF k \in DOMAIN d THEN d[k] ELSE default

\* truth value of an Optional[str]: None and "" are false
Truthy(opt) == opt # None /\ opt[1] # <<>>

----------------------------------------------------------------------------
(* Domain enums and models *)

Mood == {"happy", "neutral", "tired", "excited", "sad"}

\* Mood.<member>.value
MoodValue(m) ==
    CASE m = "happy"   -> Chars("happy")
      [] m = "neutral" -> Chars("neutral")
      [] m = "tired"   -> Chars("tired")
      [] m = "excited" -> Chars("excited")
      [] m = "sad"     -> Chars("sad")

MinNameLen == 1

MaxNameLen == 50

DefaultLanguage == Chars("en")

\* Field(strip_whitespace=True, ...): Field has no such constraint, the
\* keyword is kept as schema metadata and the value is left as it came.
FieldName(raw) == raw

\* the name field of GreetRequest: min_length and max_length
NameValid(name) == MinNameLen <= Len(name) /\ Len(name) <= MaxNameLen

\* does the body of the request build a GreetRequest?
SchemaValid(r) == NameValid(FieldName(r.name)) /\ r.mood \in Mood

\* GreetRequest(**body), defaults filled in
GreetRequest(r) ==
    [name        |-> FieldName(r.name),
     mood        |-> r.mood,
     language    |-> IF r.language = None THEN DefaultLanguage ELSE r.language[1],
     time_of_day |-> r.time_of_day]

\* GreetResponse(message=msg, tone=tone, tips=tips)
GreetResponse(msg, tone, tips) == [message |-> msg, tone |-> tone, tips |-> tips]

----------------------------------------------------------------------------
(* craft_message *)

Namaste == <<"U+0928", "U+092E", "U+0938", "U+094D", "U+0924", "U+0947">>

Suprabhat ==
    <<"U+0938", "U+0941", "U+092A", "U+094D", "U+0930", "U+092D", "U+093E", "U+0924">>

ShubhSandhya ==
    <<"U+0936", "U+0941", "U+092D", " ", "U+0938", "U+0902", "U+0927", "U+094D",
      "U+092F", "U+093E">>

tod_prefix ==
    (Chars("morning")   :> ((Chars("en") :> Chars("Good morning"))   @@ (Chars("hi") :> Suprabhat)))
 @@ (Chars("afternoon") :> ((Chars("en") :> Chars("Good afternoon")) @@ (Chars("hi") :> Namaste)))
 @@ (Chars("evening")   :> ((Chars("en") :> Chars("Good evening"))   @@ (Chars("hi") :> ShubhSandhya)))

hello == (Chars("en") :> Chars("Hello")) @@ (Chars("hi") :> Namaste)

\* faulty variant: the key is not lower-cased
TodKey_nolower(time_of_day) == time_of_day[1]

\* the key time_of_day is looked up under
TodKey(time_of_day) == Lower(time_of_day[1])

\* choose greeting
ChooseGreeting(language, time_of_day) ==
    IF Truthy(time_of_day) /\ TodKey(time_of_day) \in DOMAIN tod_prefix
    THEN DictGet(tod_prefix[TodKey(time_of_day)], language,
                 DictGet(hello, language, Chars("Hello")))
    ELSE DictGet(hello, language, Chars("Hello"))

\* faulty variant: one list shared by every call, still holding the tips of
\* a response already built
LeakedTips ==
    LET built == {w \in Workers : /\ pc[w] = "done"
                                  /\ req[w].route = "POST /greet"
                                  /\ resp[w].status = 200}
    IN  IF built = {} THEN <<>> ELSE resp[CHOOSE w \in built : TRUE].body.tips

\* tips: list[str] = []
EmptyTips == <<>>

\* faulty variant: the sad branch sets the tone and appends nothing
ToneAndTips_sadnotip(mood) ==
    IF mood = "tired"
    THEN [tone |-> "gentle", tips |-> <<"Take a short break and hydrate.">>]
    ELSE IF mood = "excited"
    THEN [tone |-> "energetic",
          tips |-> <<"Channel that energy into your top task for 25 minutes.">>]
    ELSE IF mood = "sad"
    THEN [tone |-> "supportive", tips |-> <<>>]
    ELSE [tone |-> "friendly", tips |-> <<>>]

\* tone & tips
ToneAndTips(mood) ==
    IF mood = "tired"
    THEN [tone |-> "gentle",
          tips |-> Append(EmptyTips, "Take a short break and hydrate.")]
    ELSE IF mood = "excited"
    THEN [tone |-> "energetic",
          tips |-> Append(EmptyTips, "Channel that energy into your top task for 25 minutes.")]
    ELSE IF mood = "sad"
    THEN [tone |-> "supportive",
          tips |-> Append(EmptyTips, "A short walk or a call with a friend can help.")]
    ELSE [tone |-> "friendly", tips |-> EmptyTips]

\* faulty variant: {mood} in place of {mood.value}, which formats the member
FormatMessage_member(base, name, mood) ==
    base \o Chars(", ") \o name \o Chars("! Hope you") \o <<"U+2019">>
         \o Chars("re doing Mood.") \o MoodValue(mood) \o Chars(".")

\* f"{base}, {name}! Hope you<U+2019>re doing {mood.value}."
FormatMessage(base, name, mood) ==
    base \o Chars(", ") \o name \o Chars("! Hope you") \o <<"U+2019">>
         \o Chars("re doing ") \o MoodValue(mood) \o Chars(".")

\* the frame of one call: its arguments, its locals, and what it returns
\* (message, tone, tips)
craft_message(name, mood, language, time_of_day) ==
    LET base == ChooseGreeting(language, time_of_day)
        tt   == ToneAndTips(mood)
    IN  [name        |-> name,
         mood        |-> mood,
         language    |-> language,
         time_of_day |-> time_of_day,
         base        |-> base,
         tone        |-> tt.tone,
         tips        |-> tt.tips,
         message     |-> FormatMessage(base, name, mood)]

----------------------------------------------------------------------------
(* validation *)

NoException == [status_code |-> 0, detail |-> ""]

HTTPException(status_code, detail) == [status_code |-> status_code, detail |-> detail]

SupportedLanguages == {Chars("en"), Chars("hi")}

\* faulty variant: the code is compared as given
validate_language_nolower(code) ==
    IF code \notin SupportedLanguages
    THEN HTTPException(400, "Unsupported language. Use 'en' or 'hi'.")
    ELSE NoException

\* faulty variant: the exception is built and not raised
validate_language_noraise(code) == NoException

validate_language(code) ==
    IF Lower(code) \notin SupportedLanguages
    THEN HTTPException(400, "Unsupported language. Use 'en' or 'hi'.")
    ELSE NoException

\* faulty variant: the exception is built and not raised
name_guardrail_noraise(name) == NoException

\* simple guardrail: names shouldn't be all digits
name_guardrail(name) ==
    IF isdigit(name)
    THEN HTTPException(400, "Name cannot be all digits.")
    ELSE NoException

\* faulty variant: language=payload.language
CraftLanguage_raw(p) == p.language

\* language=payload.language.lower()
CraftLanguage(p) == Lower(p.language)

----------------------------------------------------------------------------
(* Requests the model serves *)

MaxShort == 2

NameAlphabet == {"A", "7", " "}

ShortNames == UNION {[1..n -> NameAlphabet] : n \in 0..MaxShort}

Names ==
    ShortNames \cup {Chars("Asha"), Chars(" Asha "),
                     Rep("x", MaxNameLen), Rep("x", MaxNameLen + 1)}

RawMoods == Mood \cup {"angry"}

\* the language field of a body: absent, or a string
Languages ==
    {None, Some(Chars("hi")), Some(Chars("EN")), Some(Chars("Hi")), Some(Chars("de"))}

\* the time_of_day field of a body: absent or null, or a string
TimesOfDay ==
    {None, Some(Chars("morning")), Some(Chars("afternoon")), Some(Chars("Evening")),
     Some(Chars("noon")), Some(<<>>)}

\* the language argument of a direct craft_message call
CraftLanguages == {Chars("en"), Chars("hi"), Chars("EN"), Chars("fr"), <<>>}

GreetBodies(names, moods, langs, tods) ==
    {[route |-> "POST /greet", name |-> n, mood |-> m, language |-> l, time_of_day |-> t] :
        n \in names, m \in moods, l \in langs, t \in tods}

HealthRequest == [route |-> "GET /health"]

Requests == GreetBodies(Names, RawMoods, Languages, TimesOfDay) \cup {HealthRequest}

\* the requests of the two-worker specification
RepeatRequests ==
    GreetBodies({Chars("Asha"), Chars("7")}, {"happy", "tired", "sad", "angry"},
                {None, Some(Chars("hi")), Some(Chars("HI")), Some(Chars("de"))},
                {None, Some(Chars("morning"))})
    \cup {HealthRequest}

----------------------------------------------------------------------------
(* The server *)

NoRequest == [route |-> "-"]

NoPayload == [none |-> TRUE]

NoFrame == [none |-> TRUE]

NoResponse == [status |-> 0, body |-> [none |-> TRUE]]

Init ==
    /\ req     = [w \in Workers |-> NoRequest]
    /\ pc      = [w \in Workers |-> "idle"]
    /\ payload = [w \in Workers |-> NoPayload]
    /\ frame   = [w \in Workers |-> NoFrame]
    /\ calls   = [w \in Workers |-> 0]
    /\ resp    = [w \in Workers |-> NoResponse]

\* the response to a raised HTTPException
ErrorResponse(e) == [status |-> e.status_code, body |-> [detail |-> e.detail]]

\* an idle worker takes the next request
Receive(w, R) ==
    /\ pc[w] = "idle"
    /\ \E r \in R : req' = [req EXCEPT ![w] = r]
    /\ pc' = [pc EXCEPT ![w] = "received"]
    /\ UNCHANGED <<payload, frame, calls, resp>>

\* GET /health
health(w) ==
    /\ pc[w] = "received"
    /\ req[w].route = "GET /health"
    /\ resp' = [resp EXCEPT ![w] = [status |-> 200, body |-> [status |-> "ok"]]]
    /\ pc'   = [pc EXCEPT ![w] = "done"]
    /\ UNCHANGED <<req, payload, frame, calls>>

\* POST /greet: the framework builds the GreetRequest, or answers 422
Parse(w) ==
    /\ pc[w] = "received"
    /\ req[w].route = "POST /greet"
    /\ IF SchemaValid(req[w])
       THEN /\ payload' = [payload EXCEPT ![w] = GreetRequest(req[w])]
            /\ pc'      = [pc EXCEPT ![w] = "L75"]
            /\ resp'    = resp
       ELSE /\ payload' = payload
            /\ pc'      = [pc EXCEPT ![w] = "done"]
            /\ resp'    = [resp EXCEPT ![w] =
                              [status |-> 422, body |-> [detail |-> "validation error"]]]
    /\ UNCHANGED <<req, frame, calls>>

\* greet, line 75: validate_language(payload.language)
ValidateLanguage(w) ==
    /\ pc[w] = "L75"
    /\ LET e == validate_language(payload[w].language)
       IN  IF e # NoException
           THEN /\ resp' = [resp EXCEPT ![w] = ErrorResponse(e)]
                /\ pc'   = [pc EXCEPT ![w] = "done"]
           ELSE /\ resp' = resp
                /\ pc'   = [pc EXCEPT ![w] = "L78"]
    /\ UNCHANGED <<req, payload, frame, calls>>

\* greet, lines 78-79: the all-digits guardrail
CheckName(w) ==
    /\ pc[w] = "L78"
    /\ LET e == name_guardrail(payload[w].name)
       IN  IF e # NoException
           THEN /\ resp' = [resp EXCEPT ![w] = ErrorResponse(e)]
                /\ pc'   = [pc EXCEPT ![w] = "done"]
           ELSE /\ resp' = resp
                /\ pc'   = [pc EXCEPT ![w] = "L81"]
    /\ UNCHANGED <<req, payload, frame, calls>>

\* greet, lines 81-86: the call of craft_message
Craft(w) ==
    /\ pc[w] = "L81"
    /\ frame' = [frame EXCEPT ![w] =
                    craft_message(payload[w].name, payload[w].mood,
                                  CraftLanguage(payload[w]), payload[w].time_of_day)]
    /\ calls' = [calls EXCEPT ![w] = @ + 1]
    /\ pc'    = [pc EXCEPT ![w] = "L87"]
    /\ UNCHANGED <<req, payload, resp>>

\* greet, line 87: return GreetResponse(...), status 200
Return(w) ==
    /\ pc[w] = "L87"
    /\ resp' = [resp EXCEPT ![w] =
                   [status |-> 200,
                    body   |-> GreetResponse(frame[w].message, frame[w].tone, frame[w].tips)]]
    /\ pc'   = [pc EXCEPT ![w] = "done"]
    /\ UNCHANGED <<req, payload, frame, calls>>

\* the response is with the client: the request's objects are dropped and
\* the worker is idle again
Finish(w) ==
    /\ pc[w] = "done"
    /\ req'     = [req EXCEPT ![w] = NoRequest]
    /\ pc'      = [pc EXCEPT ![w] = "idle"]
    /\ payload' = [payload EXCEPT ![w] = NoPayload]
    /\ frame'   = [frame EXCEPT ![w] = NoFrame]
    /\ calls'   = [calls EXCEPT ![w] = 0]
    /\ resp'    = [resp EXCEPT ![w] = NoResponse]

\* the arguments of a craft_message call made on its own
CraftArgs ==
    {[name |-> n, mood |-> m, language |-> l, time_of_day |-> t] :
        n \in Names, m \in Mood, l \in CraftLanguages, t \in TimesOfDay}

\* craft_message about to run on any arguments
InitCraft ==
    /\ req     = [w \in Workers |-> NoRequest]
    /\ pc      = [w \in Workers |-> IF w = "w1" THEN "call" ELSE "idle"]
    /\ payload = [w \in Workers |-> NoPayload]
    /\ frame   \in {[w \in Workers |-> IF w = "w1" THEN a ELSE NoFrame] : a \in CraftArgs}
    /\ calls   = [w \in Workers |-> 0]
    /\ resp    = [w \in Workers |-> NoResponse]

\* the body of craft_message runs
CallCraft(w) ==
    /\ pc[w] = "call"
    /\ frame' = [frame EXCEPT ![w] =
                    craft_message(frame[w].name, frame[w].mood, frame[w].language,
                                  frame[w].time_of_day)]
    /\ pc'    = [pc EXCEPT ![w] = "returned"]
    /\ UNCHANGED <<req, payload, calls, resp>>

Serve(w, R) ==
    \/ Receive(w, R)
    \/ health(w)
    \/ Parse(w)
    \/ ValidateLanguage(w)
    \/ CheckName(w)
    \/ Craft(w)
    \/ Return(w)
    \/ Finish(w)

\* one worker, every request
Next == Serve("w1", Requests)

Spec == Init /\ [][Next]_vars

\* craft_message as a pure function
NextCraft == CallCraft("w1")

SpecCraft == InitCraft /\ [][NextCraft]_vars

\* two workers serving concurrently
NextRepeat == \E w \in Workers : Serve(w, RepeatRequests)

SpecRepeat == Init /\ [][NextRepeat]_vars

----------------------------------------------------------------------------
(* Vocabulary of the properties *)

UnsupportedLanguageDetail == "Unsupported language. Use 'en' or 'hi'."

AllDigitsDetail == "Name cannot be all digits."

BadRequest(detail) == [status |-> 400, body |-> [detail |-> detail]]

\* every spelling of "en" and "hi"
SupportedSpellings ==
    {Chars("en"), Chars("En"), Chars("eN"), Chars("EN"),
     Chars("hi"), Chars("Hi"), Chars("hI"), Chars("HI")}

\* composed entirely of digit characters
AllDigits(s) == s # <<>> /\ {s[i] : i \in 1..Len(s)} \subseteq DigitChars

\* worker w serves a POST /greet whose body passed schema validation
Parsed(w) == req[w].route = "POST /greet" /\ payload[w] # NoPayload

\* worker w has answered its request
Answered(w) == pc[w] = "done"

----------------------------------------------------------------------------
(* C1: a schema-valid POST /greet whose language, lower-cased, is neither  *)
(* "en" nor "hi" ends with 400 "Unsupported language. Use 'en' or 'hi'."   *)
(* and goes no further than the language check; a language that is "en"    *)
(* or "hi" in any letter case is never rejected by the language check.     *)
C1_LanguageCheck ==
    \A w \in Workers :
        Parsed(w) =>
            IF payload[w].language \in SupportedSpellings
            THEN resp[w] # BadRequest(UnsupportedLanguageDetail)
            ELSE /\ pc[w] \in {"L75", "done"}
                 /\ Answered(w) => resp[w] = BadRequest(UnsupportedLanguageDetail)

C1_Witness ==
    /\ Answered("w1")
    /\ Parsed("w1")
    /\ payload["w1"].language = Chars("EN")
    /\ resp["w1"].status = 200

(* C2: a schema-valid POST /greet with a supported language ends with 400  *)
(* "Name cannot be all digits." when its name is all digits, and with 200  *)
(* when its name holds a character that is not a digit.                    *)
C2_AllDigitsName ==
    \A w \in Workers :
        Answered(w) /\ Parsed(w) /\ payload[w].language \in SupportedSpellings =>
            IF AllDigits(payload[w].name)
            THEN resp[w] = BadRequest(AllDigitsDetail)
            ELSE resp[w].status = 200

C2_Witness ==
    /\ Answered("w1")
    /\ Parsed("w1")
    /\ payload["w1"].name = Chars("77")
    /\ resp["w1"] = BadRequest(AllDigitsDetail)

\* whitespace of the input alphabet
Whitespace == {" "}

\* s without its leading and trailing whitespace
Strip(s) ==
    LET keep == {i \in 1..Len(s) : s[i] \notin Whitespace}
        lo   == CHOOSE i \in keep : \A j \in keep : i <= j
        hi   == CHOOSE i \in keep : \A j \in keep : j <= i
    IN  IF keep = {} THEN <<>> ELSE SubSeq(s, lo, hi)

(* C3: a POST /greet reaches 200 only if its name, with the surrounding    *)
(* whitespace trimmed, is non-empty and at most 50 characters long (so     *)
(* never with an empty, an all-whitespace or an over-long name), and the   *)
(* message of a 200 response carries the trimmed name.                     *)
C3_TrimmedName ==
    \A w \in Workers :
        Answered(w) /\ req[w].route = "POST /greet" /\ resp[w].status = 200 =>
            /\ Strip(req[w].name) # <<>>
            /\ Len(req[w].name) <= 50
            /\ resp[w].body.message =
                   frame[w].base \o Chars(", ") \o Strip(req[w].name)
                       \o Chars("! Hope you") \o <<"U+2019">> \o Chars("re doing ")
                       \o Chars(req[w].mood) \o Chars(".")

(* C4: craft_message returns exactly                                       *)
(* "{base}, {name}! Hope you<U+2019>re doing {mood_value}.", the           *)
(* apostrophe being U+2019 RIGHT SINGLE QUOTATION MARK; on ("Asha", tired, *)
(* "en", None) it returns "Hello, Asha! Hope you<U+2019>re doing tired.".  *)
C4_MessageTemplate ==
    \A w \in Workers :
        pc[w] = "returned" =>
            /\ frame[w].message =
                   frame[w].base \o Chars(", ") \o frame[w].name
                       \o Chars("! Hope you") \o <<"U+2019">> \o Chars("re doing ")
                       \o Chars(frame[w].mood) \o Chars(".")
            /\ (/\ frame[w].name = Chars("Asha")
                /\ frame[w].mood = "tired"
                /\ frame[w].language = Chars("en")
                /\ frame[w].time_of_day = None)
               => frame[w].message =
                      Chars("Hello, Asha! Hope you") \o <<"U+2019">>
                          \o Chars("re doing tired.")

C4_Witness ==
    /\ pc["w1"] = "returned"
    /\ frame["w1"].name = Chars("Asha")
    /\ frame["w1"].mood = "tired"
    /\ frame["w1"].language = Chars("en")
    /\ frame["w1"].time_of_day = None
    /\ frame["w1"].message =
           Chars("Hello, Asha! Hope you") \o <<"U+2019">> \o Chars("re doing tired.")

(* C4 as first stated: the message is                                      *)
(* "{base}, {name}! Hope you're doing {mood_value}." with the ASCII        *)
(* apostrophe, "Hello, Asha! Hope you're doing tired." for ("Asha", tired, *)
(* "en", None).                                                            *)
C4_AsciiApostrophe ==
    \A w \in Workers :
        pc[w] = "returned" =>
            /\ frame[w].message =
                   frame[w].base \o Chars(", ") \o frame[w].name
                       \o Chars("! Hope you're doing ")
                       \o Chars(frame[w].mood) \o Chars(".")
            /\ (/\ frame[w].name = Chars("Asha")
                /\ frame[w].mood = "tired"
                /\ frame[w].language = Chars("en")
                /\ frame[w].time_of_day = None)
               => frame[w].message = Chars("Hello, Asha! Hope you're doing tired.")

\* the greeting the day-part table holds for "en" and for "hi"
DayPartGreeting(part, language) ==
    CASE part = Chars("morning") ->
            IF language = Chars("en") THEN Chars("Good morning") ELSE Suprabhat
      [] part = Chars("afternoon") ->
            IF language = Chars("en") THEN Chars("Good afternoon") ELSE Namaste
      [] part = Chars("evening") ->
            IF language = Chars("en") THEN Chars("Good evening") ELSE ShubhSandhya

\* the default-table greeting of a language, else "Hello"
DefaultGreeting(language) ==
    IF language = Chars("hi") THEN Namaste ELSE Chars("Hello")

(* C5: when time_of_day is present and its lowercase form is "morning",    *)
(* "afternoon" or "evening", the base is that day-part's greeting for the  *)
(* language, else the default-table greeting of the language, else         *)
(* "Hello"; in every other case (None, "", or no day-part key) the base is *)
(* the default-table greeting of the language, else "Hello".               *)
C5_GreetingBase ==
    \A w \in Workers :
        pc[w] = "returned" =>
            LET t == frame[w].time_of_day
                l == frame[w].language
            IN  IF /\ t # None
                   /\ Lower(t[1]) \in {Chars("morning"), Chars("afternoon"), Chars("evening")}
                THEN IF l \in {Chars("en"), Chars("hi")}
                     THEN frame[w].base = DayPartGreeting(Lower(t[1]), l)
                     ELSE frame[w].base = DefaultGreeting(l)
                ELSE frame[w].base = DefaultGreeting(l)

C5_Witness ==
    /\ pc["w1"] = "returned"
    /\ frame["w1"].time_of_day = Some(Chars("Evening"))
    /\ frame["w1"].language = Chars("hi")
    /\ frame["w1"].base = ShubhSandhya

\* tone and tips of each mood
MoodTable(mood) ==
    CASE mood = "tired"   -> <<"gentle", <<"Take a short break and hydrate.">> >>
      [] mood = "excited" ->
            <<"energetic", <<"Channel that energy into your top task for 25 minutes.">> >>
      [] mood = "sad"     ->
            <<"supportive", <<"A short walk or a call with a friend can help.">> >>
      [] mood = "happy"   -> <<"friendly", <<>> >>
      [] mood = "neutral" -> <<"friendly", <<>> >>

(* C6: tone and tips are decided by the mood alone, whatever the name, the *)
(* language and the time of day: tired, excited and sad give "gentle",     *)
(* "energetic" and "supportive" each with its one tip, happy and neutral   *)
(* give "friendly" with no tip; the tip list has length 0 or 1.            *)
C6_ToneAndTips ==
    \A w \in Workers :
        pc[w] = "returned" =>
            /\ frame[w].tone = MoodTable(frame[w].mood)[1]
            /\ frame[w].tips = MoodTable(frame[w].mood)[2]
            /\ Len(frame[w].tips) \in {0, 1}

C6_Witness ==
    /\ pc["w1"] = "returned"
    /\ frame["w1"].mood = "sad"
    /\ frame["w1"].language = Chars("fr")
    /\ frame["w1"].tone = "supportive"
    /\ frame["w1"].tips = <<"A short walk or a call with a friend can help.">>

\* both validator checks pass on the GreetRequest of worker w
ChecksPass(w) ==
    /\ payload[w].language \in SupportedSpellings
    /\ ~AllDigits(payload[w].name)

(* C7: craft_message is called for a request only after the language check *)
(* and the all-digits check have both passed; a request that fails either  *)
(* check is answered with the error and craft_message is never called for  *)
(* it; a request that passes both is answered 200 with the result of the   *)
(* one craft_message call made for it.                                     *)
C7_CraftAfterChecks ==
    \A w \in Workers :
        /\ calls[w] <= 1
        /\ calls[w] > 0 => Parsed(w) /\ ChecksPass(w) /\ pc[w] \in {"L87", "done"}
        /\ Answered(w) /\ Parsed(w) =>
              IF ChecksPass(w)
              THEN /\ calls[w] = 1
                   /\ resp[w] =
                          [status |-> 200,
                           body   |-> [message |-> frame[w].message,
                                       tone    |-> frame[w].tone,
                                       tips    |-> frame[w].tips]]
              ELSE /\ calls[w] = 0
                   /\ frame[w] = NoFrame
                   /\ resp[w].status = 400

C7_Witness ==
    /\ Answered("w1")
    /\ Parsed("w1")
    /\ payload["w1"].language = Chars("hi")
    /\ payload["w1"].name = Chars("7")
    /\ resp["w1"] = BadRequest(AllDigitsDetail)
    /\ calls["w1"] = 0

(* C8: two identical requests get identical responses, whatever requests   *)
(* were served before them or are served alongside them; no response       *)
(* carries tips of another request.                                        *)
C8_SameRequestSameResponse ==
    \A v, w \in Workers :
        Answered(v) /\ Answered(w) /\ req[v] = req[w] => resp[v] = resp[w]

C8_Witness ==
    /\ Answered("w1")
    /\ Answered("w2")
    /\ req["w1"].route = "POST /greet"
    /\ req["w1"] = req["w2"]
    /\ req["w1"].mood = "tired"
    /\ resp["w1"].status = 200
    /\ resp["w2"].body.tips = <<"Take a short break and hydrate.">>

\* two bodies that differ at most in the letter case of their language
SameButLanguageCase(r, q) ==
    /\ r.route = "POST /greet"
    /\ q.route = "POST /greet"
    /\ r.name = q.name
    /\ r.mood = q.mood
    /\ r.time_of_day = q.time_of_day
    /\ r.language # None
    /\ q.language # None
    /\ Lower(r.language[1]) = Lower(q.language[1])

(* C9: the language craft_message gets from the handler is exactly "en" or *)
(* "hi", so the handler never reaches the "Hello" fallback for a language  *)
(* outside the default table, and two accepted requests that differ only   *)
(* in the letter case of their language get identical responses.           *)
C9_LowercaseLanguage ==
    /\ \A w \in Workers :
          calls[w] > 0 =>
              /\ frame[w].language \in {Chars("en"), Chars("hi")}
              /\ frame[w].language \in DOMAIN hello
              /\ frame[w].language = Chars("hi") => frame[w].base # Chars("Hello")
    /\ \A v, w \in Workers :
          /\ Answered(v)
          /\ Answered(w)
          /\ SameButLanguageCase(req[v], req[w])
          /\ resp[v].status = 200
          => resp[w] = resp[v]

C9_Witness ==
    /\ Answered("w1")
    /\ Answered("w2")
    /\ SameButLanguageCase(req["w1"], req["w2"])
    /\ req["w1"].language = Some(Chars("HI"))
    /\ req["w2"].language = Some(Chars("hi"))
    /\ resp["w1"].status = 200
    /\ resp["w1"] = resp["w2"]
    /\ frame["w1"].base = Namaste

(* C10: a schema-valid request with an unsupported language and an         *)
(* all-digit name is answered 400 "Unsupported language. Use 'en' or       *)
(* 'hi'.", never "Name cannot be all digits."; a rejected request carries  *)
(* one error detail.                                                       *)
C10_LanguageBeforeName ==
    \A w \in Workers :
        Answered(w) /\ Parsed(w) =>
            /\ (/\ payload[w].language \notin SupportedSpellings
                /\ AllDigits(payload[w].name))
               => resp[w] = BadRequest(UnsupportedLanguageDetail)
            /\ resp[w].status = 400 =>
                  resp[w].body \in {[detail |-> UnsupportedLanguageDetail],
                                    [detail |-> AllDigitsDetail]}

C10_Witness ==
    /\ Answered("w1")
    /\ Parsed("w1")
    /\ payload["w1"].language = Chars("de")
    /\ payload["w1"].name = Chars("7")
    /\ resp["w1"] = BadRequest(UnsupportedLanguageDetail)

=============================================================================
